---- MODULE Spec2Model ----
(***************************************************************************)
(* Download-token lifecycle of the document management service:            *)
(* DownloadLinkController -> DownloadLinkService -> DownloadTokenRepository *)
(* over the shared SQLite store, together with the parts of the document   *)
(* and permission stores it touches.  Every request is an async handler;   *)
(* each awaited store call is one atomic step, and handlers of different   *)
(* requests interleave between their awaits.                               *)
(***************************************************************************)
EXTENDS Integers, Sequences, FiniteSets, TLC

\* ------------------------------------------------------------------ bounds
MaxTokens == 1
MaxTicks == 4
MaxStoreFaults == 1
MaxCalls == 3

\* ------------------------------------------------------- program constants
MsPerSecond == 1000
TickMs == MsPerSecond \div 2
DefaultTtlMs == 60 * 60 * 1000
MinDownloadTokenLength == 32
IssuedSecretLength == 64

NULL == -1
UnknownSecret == 0
ShortSecret == -2
ShortSecretLength == MinDownloadTokenLength - 1

Procs == {1, 2}
AdminUser == "admin"
Users == {"admin", "u1", "u2"}
MissingDoc == "d3"
MalformedDocId == "not-a-uuid"
\* (caller, documentId) pairs presented to the download-link endpoint: the owner,
\* a stranger, a grantee, and a caller naming a missing and a malformed id
IssueInputs == { <<"u1", "d1">>, <<"u2", "d1">>, <<"u1", "d2">>,
                 <<"u1", MissingDoc>>, <<"u1", MalformedDocId>> }

\* the document whose owner or the admin may ask to delete it
DeletableDocs == {"d1"}

\* DOWNLOAD_LINK_EXPIRES_IN values the process may be configured with
ExpiresInChoices == { <<"1", "s">> }

VARIABLES
    now,             \* wall clock, milliseconds
    config,          \* config.DOWNLOAD_LINK_EXPIRES_IN
    foreignKeys,     \* whether the SQLite build enforces FOREIGN KEY clauses
    documents,       \* documents table: set of [id, uploadedBy]
    permissions,     \* document_permissions table
    downloadTokens,  \* download_tokens table
    nextId,          \* source of fresh uuids / random secrets
    faults,          \* store failures injected so far
    calls,           \* requests accepted so far
    call,            \* per worker: the request in progress and its locals
    issued,          \* history: secret -> what Issue bound it to
    redeemed,        \* history: secrets for which a Redeem returned a document
    redeemStarted,   \* history: secrets presented to Redeem so far
    neverCleaned,    \* history: download_tokens as it is when Cleanup never deletes
    documentTags,    \* table document_tags
    documentMetadata,\* table document_metadata
    search           \* the search request in progress, its locals and its response

vars == <<now, config, foreignKeys, documents, permissions, downloadTokens,
          nextId, faults, calls, call, issued, redeemed, redeemStarted,
          neverCleaned, documentTags, documentMetadata, search>>

\* ----------------------------------------------------------------- users
UserRole(u) == IF u = AdminUser THEN "admin" ELSE "user"

\* ------------------------------------------------------- branded identifiers
isValidUUID(value) == value # MalformedDocId

SecretLength(s) == IF s = ShortSecret THEN ShortSecretLength ELSE IssuedSecretLength

createDownloadTokenOk(value) == SecretLength(value) >= MinDownloadTokenLength

\* --------------------------------------------------- timestamp columns
\* integer(..., { mode: "timestamp" }) keeps whole seconds
StoreTimestamp(ms) == ms \div MsPerSecond

LoadTimestamp(sec) == sec * MsPerSecond

\* ------------------------------------------------- parseExpirationTime
Digits == {"0", "1", "2", "3", "4", "5", "6", "7", "8", "9"}

DigitValue(c) ==
    CASE c = "0" -> 0 [] c = "1" -> 1 [] c = "2" -> 2 [] c = "3" -> 3
      [] c = "4" -> 4 [] c = "5" -> 5 [] c = "6" -> 6 [] c = "7" -> 7
      [] c = "8" -> 8 [] OTHER -> 9

RECURSIVE parseInt(_)
parseInt(chars) ==
    IF Len(chars) = 0 THEN 0
    ELSE 10 * parseInt(SubSeq(chars, 1, Len(chars) - 1)) + DigitValue(chars[Len(chars)])

timeMatch(expiresIn) ==
    /\ Len(expiresIn) >= 2
    /\ \A i \in 1..(Len(expiresIn) - 1) : expiresIn[i] \in Digits
    /\ expiresIn[Len(expiresIn)] \in {"h", "m", "s", "d"}

parseExpirationTime(expiresIn, t) ==
    IF ~timeMatch(expiresIn) THEN t + DefaultTtlMs
    ELSE LET value == parseInt(SubSeq(expiresIn, 1, Len(expiresIn) - 1))
             unit == expiresIn[Len(expiresIn)]
         IN CASE unit = "s" -> t + value * 1000
              [] unit = "m" -> t + value * 60 * 1000
              [] unit = "h" -> t + value * 60 * 60 * 1000
              [] OTHER -> t + value * 24 * 60 * 60 * 1000

\* ------------------------------------------------------------- error mapping
MsgDocumentNotFound == <<"document", "not", "found">>
MsgInvalidToken == <<"invalid,", "expired,", "or", "already", "used", "download", "token">>
MsgTokenFormat == <<"invalid", "download", "token", "format">>
MsgForeignKey == <<"foreign", "key", "constraint", "failed">>
MsgNone == << >>

includes(message, pattern) ==
    \E i \in 1..(Len(message) - Len(pattern) + 1) :
        SubSeq(message, i, i + Len(pattern) - 1) = pattern

handleControllerError(message) ==
    IF includes(message, <<"not", "found">>) \/ includes(message, <<"does", "not", "exist">>)
    THEN 404
    ELSE IF \/ includes(message, <<"already", "exists">>)
            \/ includes(message, <<"duplicate">>)
            \/ includes(message, <<"conflict">>)
    THEN 409
    ELSE IF \/ includes(message, <<"unauthorized">>)
            \/ includes(message, <<"invalid", "credentials">>)
            \/ includes(message, <<"authentication">>)
    THEN 401
    ELSE IF \/ includes(message, <<"forbidden">>)
            \/ includes(message, <<"permission">>)
            \/ includes(message, <<"access", "denied">>)
    THEN 403
    ELSE 400

\* ------------------------------------------------------------ store queries
\* variant: the WHERE clause lost
DocumentRepository_findById_noWhere(id) == documents

DocumentRepository_findById(id) == {d \in documents : d.id = id}

DocumentService_getDocument(id) ==
    IF isValidUUID(id) THEN DocumentRepository_findById(id) ELSE {}

getDocumentPermissions(documentId) == {g \in permissions : g.documentId = documentId}

checkDocumentAccess(userId, userRole, document) ==
    IF userRole = "admin" THEN TRUE
    ELSE IF document.uploadedBy = userId THEN TRUE
    ELSE \E g \in getDocumentPermissions(document.id) : g.userId = userId

findByToken(token) == {r \in downloadTokens : r.token = token}

\* variant: the expiry test dropped
isExpired_never(expiresAt, t) == FALSE

\* variant: the expiry comparison reversed
isExpired_reversed(expiresAt, t) == LoadTimestamp(expiresAt) > t

isExpired(expiresAt, t) == LoadTimestamp(expiresAt) < t

\* variant: the used-at test dropped
isUsed_dropped(usedAt) == FALSE

isUsed(usedAt) == usedAt # NULL

validateAndGetDocument(token, t) ==
    IF findByToken(token) = {}
    THEN [documentId |-> "", isValid |-> FALSE, isExpired |-> FALSE, isUsed |-> FALSE]
    ELSE LET tokenRecord == CHOOSE r \in findByToken(token) : TRUE
         IN [documentId |-> tokenRecord.documentId,
             isValid |-> ~isExpired(tokenRecord.expiresAt, t) /\ ~isUsed(tokenRecord.usedAt),
             isExpired |-> isExpired(tokenRecord.expiresAt, t),
             isUsed |-> isUsed(tokenRecord.usedAt)]

\* variant: the WHERE clause of the sweep lost
ExpiredRows_all(t) == downloadTokens

\* variant: lte in place of lt
ExpiredRows_lte(t) == {r \in downloadTokens : r.expiresAt <= StoreTimestamp(t)}

\* rows selected by  lt(downloadTokens.expiresAt, now)
ExpiredRows(t) == {r \in downloadTokens : r.expiresAt < StoreTimestamp(t)}

\* ------------------------------------------------------------------- state
NoCall ==
    [op |-> "none", pc |-> "idle", user |-> "", docId |-> "", secret |-> NULL,
     valDoc |-> "", tokId |-> NULL, expiresAt |-> NULL, now0 |-> NULL, count |-> NULL,
     outcome |-> "", error |-> MsgNone, status |-> 0,
     case |-> "", authorized |-> FALSE, seen |-> {},
     grantee |-> "", level |-> "", owner |-> "", allowed |-> FALSE]

\* rows of documents present at the start, rowid in insertion order; the stored
\* filename differs from the original name of d2, whose original name is upper
\* case; d1 and d4 have the same size, d1 and d2 the same creation second
SeedDocuments ==
    { [id |-> "d1", uploadedBy |-> "u1", filename |-> <<"a", "b">>,
       originalName |-> <<"a", "b">>, mimeType |-> <<"pdf">>, size |-> 1,
       createdAt |-> 0, rowid |-> 1],
      [id |-> "d2", uploadedBy |-> "u2", filename |-> <<"x", "y">>,
       originalName |-> <<"A", "B">>, mimeType |-> <<"pdf">>, size |-> 2,
       createdAt |-> 0, rowid |-> 2],
      [id |-> "d4", uploadedBy |-> "u1", filename |-> <<"a", "_">>,
       originalName |-> <<"a", "_">>, mimeType |-> <<"txt">>, size |-> 1,
       createdAt |-> 1, rowid |-> 3] }

\* rows of document_tags and document_metadata present at the start
SeedTags ==
    { [id |-> "t1", documentId |-> "d1", tag |-> <<"a", "b">>, createdAt |-> 0],
      [id |-> "t2", documentId |-> "d2", tag |-> <<"a", "b">>, createdAt |-> 0],
      [id |-> "t3", documentId |-> "d4", tag |-> <<"c", "d">>, createdAt |-> 1],
      [id |-> "t4", documentId |-> "d2", tag |-> <<"z">>, createdAt |-> 0] }

SeedMetadata ==
    { [id |-> "m1", documentId |-> "d1", key |-> <<"k">>, value |-> <<"a", "b">>,
       createdAt |-> 0],
      [id |-> "m2", documentId |-> "d4", key |-> <<"j">>, value |-> <<"c", "d">>,
       createdAt |-> 1],
      [id |-> "m3", documentId |-> "d2", key |-> <<"k">>, value |-> <<"x", "a", "b">>,
       createdAt |-> 0] }

\* a query with nothing in it; an absent string is the empty sequence
NoQuery ==
    [filename |-> << >>, mimeType |-> << >>, uploadedBy |-> "", tags |-> << >>,
     metadata |-> {}, page |-> 1, limit |-> 1, sortBy |-> "createdAt", sortOrder |-> "desc"]

NoSearch ==
    [pc |-> "idle", user |-> "", query |-> NoQuery, options |-> NoQuery,
     tagFilter |-> FALSE, tagIds |-> {}, metaFilter |-> FALSE, metaIds |-> {},
     total |-> 0, totalPages |-> 0, data |-> << >>, page |-> 0, limit |-> 0,
     queries |-> << >>]

Init ==
    /\ now = 0
    /\ config \in ExpiresInChoices
    /\ foreignKeys \in BOOLEAN
    /\ documents = SeedDocuments
    /\ permissions = {[id |-> 0, documentId |-> "d2", userId |-> "u1",
                       permission |-> "read", grantedBy |-> "u2", grantedAt |-> 0]}
    /\ downloadTokens = {}
    /\ nextId = 1
    /\ faults = 0
    /\ calls = 0
    /\ call = [p \in Procs |-> NoCall]
    /\ issued = << >>
    /\ redeemed = {}
    /\ redeemStarted = {}
    /\ neverCleaned = {}
    /\ documentTags = SeedTags
    /\ documentMetadata = SeedMetadata
    /\ search = NoSearch

Tick ==
    /\ now < MaxTicks * TickMs
    /\ now' = now + TickMs
    /\ UNCHANGED <<config, foreignKeys, documents, permissions, downloadTokens,
                   nextId, faults, calls, call, issued, redeemed, redeemStarted, neverCleaned>>
    /\ UNCHANGED <<documentTags, documentMetadata, search>>

\* the locals of worker p after its current request wrote upd
Set(p, upd) ==
    [call EXCEPT ![p] = [f \in DOMAIN NoCall |-> IF f \in DOMAIN upd THEN upd[f] ELSE call[p][f]]]

\* the locals of worker p after the request ended with upd: only the request
\* and its response remain
End(p, upd) ==
    [call EXCEPT ![p] =
        [f \in DOMAIN NoCall |->
            IF f \in DOMAIN upd THEN upd[f]
            ELSE IF f \in {"op", "docId", "secret", "valDoc", "case", "outcome"}
            THEN call[p][f] ELSE NoCall[f]]]

\* the locals of worker p when it takes a new request
Begin(p, upd) ==
    [call EXCEPT ![p] = [f \in DOMAIN NoCall |-> IF f \in DOMAIN upd THEN upd[f] ELSE NoCall[f]]]

Idle(p) == call[p].pc \in {"idle", "done"}

\* a request is handed to the first worker that is not in the middle of one
Free(p) ==
    /\ Idle(p)
    /\ calls < MaxCalls
    /\ \A q \in Procs : q < p => ~Idle(q)

IssuesInFlight == Cardinality({p \in Procs : call[p].op = "issue" /\ ~Idle(p)})

\* ---- POST /documents/:documentId/download-link (authenticated user)
\* DownloadLinkController.generateDownloadLink: documentService.getDocument
IssueController(p, user, docId) ==
    /\ Free(p)
    /\ nextId + IssuesInFlight <= MaxTokens
    /\ calls' = calls + 1
    /\ LET found == DocumentService_getDocument(docId)
           req == [op |-> "issue", user |-> user, docId |-> docId]
       IN IF found = {}
          THEN call' = Begin(p, req @@ [pc |-> "done", outcome |-> "error",
                               error |-> MsgDocumentNotFound,
                               status |-> handleControllerError(MsgDocumentNotFound)])
          ELSE LET document == CHOOSE d \in found : TRUE
               IN call' = Begin(p, req @@ [pc |-> "i_service",
                              authorized |-> checkDocumentAccess(user, UserRole(user), document)])
    /\ UNCHANGED <<now, config, foreignKeys, documents, permissions, downloadTokens,
                   nextId, faults, issued, redeemed, redeemStarted, neverCleaned>>
    /\ UNCHANGED <<documentTags, documentMetadata, search>>

\* DownloadLinkService.generateDownloadLink up to the insert
IssueService(p) ==
    /\ call[p].pc = "i_service"
    /\ IF DocumentRepository_findById(call[p].docId) = {}
       THEN /\ call' = End(p, [pc |-> "done", outcome |-> "error",
                               error |-> MsgDocumentNotFound,
                               status |-> handleControllerError(MsgDocumentNotFound)])
            /\ UNCHANGED nextId
       ELSE /\ call' = Set(p, [pc |-> "i_create", secret |-> nextId,
                               expiresAt |-> parseExpirationTime(config, now)])
            /\ nextId' = nextId + 1
    /\ UNCHANGED <<now, config, foreignKeys, documents, permissions, downloadTokens,
                   faults, calls, issued, redeemed, redeemStarted, neverCleaned>>
    /\ UNCHANGED <<documentTags, documentMetadata, search>>

\* variant: the document and creator columns swapped
NewTokenRow_swapped(id, documentId, token, expiresAt, createdBy) ==
    [id |-> id, documentId |-> createdBy, token |-> token,
     expiresAt |-> StoreTimestamp(expiresAt), usedAt |-> NULL, createdBy |-> documentId]

NewTokenRow(id, documentId, token, expiresAt, createdBy) ==
    [id |-> id, documentId |-> documentId, token |-> token,
     expiresAt |-> StoreTimestamp(expiresAt), usedAt |-> NULL, createdBy |-> createdBy]

\* DownloadTokenRepository.create, then the controller's success response
IssueCreate(p) ==
    /\ call[p].pc = "i_create"
    /\ IF foreignKeys /\ DocumentRepository_findById(call[p].docId) = {}
       THEN /\ call' = End(p, [pc |-> "done", outcome |-> "error", error |-> MsgForeignKey,
                               status |-> handleControllerError(MsgForeignKey)])
            /\ UNCHANGED <<downloadTokens, issued, neverCleaned>>
       ELSE LET row == NewTokenRow(call[p].secret, call[p].docId, call[p].secret,
                                   call[p].expiresAt, call[p].user)
            IN /\ downloadTokens' = downloadTokens \cup {row}
               /\ neverCleaned' = neverCleaned \cup {row}
               /\ issued' = (call[p].secret :> [documentId |-> call[p].docId,
                                                expiresAt |-> row.expiresAt,
                                                authorized |-> call[p].authorized]) @@ issued
               /\ call' = End(p, [pc |-> "done", outcome |-> "ok", status |-> 200])
    /\ UNCHANGED <<now, config, foreignKeys, documents, permissions, nextId, faults,
                   calls, redeemed, redeemStarted>>
    /\ UNCHANGED <<documentTags, documentMetadata, search>>

\* ---- GET /download/:token (anonymous bearer)
\* which of the invalid-token cases the presented secret is in at time t
CaseOf(s, t) ==
    IF \A r \in downloadTokens : r.token # s THEN "nomatch"
    ELSE LET r == CHOOSE x \in downloadTokens : x.token = s
         IN IF r.usedAt # NULL /\ r.expiresAt * MsPerSecond < t THEN "used+expired"
            ELSE IF r.usedAt # NULL THEN "used"
            ELSE IF r.expiresAt * MsPerSecond < t THEN "expired"
            ELSE "valid"

\* secrets a bearer can present: issued ones, a well-formed one that was never
\* issued, and one shorter than a token
PresentableSecrets == DOMAIN issued \cup {UnknownSecret, ShortSecret}

Secrets == (1..MaxTokens) \cup {UnknownSecret, ShortSecret}

\* downloadWithToken -> useDownloadToken: validateAndGetDocument and the isValid
\* test; on null the controller throws and handleControllerError answers
RedeemValidate(p, s) ==
    /\ Free(p)
    /\ s \in PresentableSecrets
    /\ calls' = calls + 1
    /\ redeemStarted' = redeemStarted \cup {s}
    /\ LET req == [op |-> "redeem", secret |-> s, case |-> CaseOf(s, now)]
       IN IF ~createDownloadTokenOk(s)
          THEN call' = Begin(p, req @@ [pc |-> "done", outcome |-> "throw",
                               error |-> MsgTokenFormat,
                               status |-> handleControllerError(MsgTokenFormat)])
          ELSE LET validation == validateAndGetDocument(s, now)
               IN IF ~validation.isValid
                  THEN call' = Begin(p, req @@ [pc |-> "done", outcome |-> "null",
                                       error |-> MsgInvalidToken,
                                       status |-> handleControllerError(MsgInvalidToken)])
                  ELSE call' = Begin(p, req @@ [pc |-> "r_find",
                                       valDoc |-> validation.documentId])
    /\ UNCHANGED <<now, config, foreignKeys, documents, permissions, downloadTokens,
                   nextId, faults, issued, redeemed, neverCleaned>>
    /\ UNCHANGED <<documentTags, documentMetadata, search>>

\* useDownloadToken: second findByToken
RedeemFind(p) ==
    /\ call[p].pc = "r_find"
    /\ IF findByToken(call[p].secret) = {}
       THEN /\ call' = Set(p, [pc |-> "r_getdoc", outcome |-> "doc"])
            /\ redeemed' = redeemed \cup {call[p].secret}
            /\ neverCleaned' = {IF r.token = call[p].secret
                                 THEN [r EXCEPT !.usedAt = StoreTimestamp(now)] ELSE r :
                                 r \in neverCleaned}
       ELSE /\ call' = Set(p, [pc |-> "r_mark",
                               tokId |-> (CHOOSE r \in findByToken(call[p].secret) : TRUE).id])
            /\ UNCHANGED <<redeemed, neverCleaned>>
    /\ UNCHANGED <<now, config, foreignKeys, documents, permissions, downloadTokens,
                   nextId, faults, calls, issued, redeemStarted>>
    /\ UNCHANGED <<documentTags, documentMetadata, search>>

\* UPDATE download_tokens SET used_at = now WHERE id = ?
markAsUsedRows(id, t) ==
    {IF r.id = id THEN [r EXCEPT !.usedAt = StoreTimestamp(t)] ELSE r : r \in downloadTokens}

\* useDownloadToken: markAsUsed, which swallows a store error, and whose boolean
\* result is dropped; then return validation.documentId
RedeemMark(p) ==
    /\ call[p].pc = "r_mark"
    /\ \/ /\ downloadTokens' = markAsUsedRows(call[p].tokId, now)
          /\ neverCleaned' = {IF r.id = call[p].tokId
                               THEN [r EXCEPT !.usedAt = StoreTimestamp(now)] ELSE r :
                               r \in neverCleaned}
          /\ UNCHANGED faults
       \/ /\ faults < MaxStoreFaults
          /\ faults' = faults + 1
          /\ UNCHANGED <<downloadTokens, neverCleaned>>
    /\ call' = Set(p, [pc |-> "r_getdoc", outcome |-> "doc"])
    /\ redeemed' = redeemed \cup {call[p].secret}
    /\ UNCHANGED <<now, config, foreignKeys, documents, permissions, nextId, calls,
                   issued, redeemStarted>>
    /\ UNCHANGED <<documentTags, documentMetadata, search>>

\* downloadWithToken after a non-null documentId: getDocument and the file response
RedeemDeliver(p) ==
    /\ call[p].pc = "r_getdoc"
    /\ IF DocumentService_getDocument(call[p].valDoc) = {}
       THEN call' = End(p, [pc |-> "done", error |-> MsgDocumentNotFound,
                            status |-> handleControllerError(MsgDocumentNotFound)])
       ELSE call' = End(p, [pc |-> "done", status |-> 200])
    /\ UNCHANGED <<now, config, foreignKeys, documents, permissions, downloadTokens,
                   nextId, faults, calls, issued, redeemed, redeemStarted, neverCleaned>>
    /\ UNCHANGED <<documentTags, documentMetadata, search>>

\* ---- POST /admin/cleanup-tokens (admin only)
\* DownloadTokenRepository.cleanup: now = new Date(); SELECT expired rows
CleanupSelect(p) ==
    /\ Free(p)
    /\ calls' = calls + 1
    /\ \/ /\ call' = Begin(p, [op |-> "cleanup", user |-> AdminUser, pc |-> "c_delete",
                               now0 |-> now, count |-> Cardinality(ExpiredRows(now)),
                               seen |-> {r.id : r \in downloadTokens}])
          /\ UNCHANGED faults
       \/ /\ faults < MaxStoreFaults
          /\ faults' = faults + 1
          /\ call' = Begin(p, [op |-> "cleanup", user |-> AdminUser, pc |-> "done",
                               outcome |-> "ok", count |-> 0, status |-> 200])
    /\ UNCHANGED <<now, config, foreignKeys, documents, permissions, downloadTokens,
                   nextId, issued, redeemed, redeemStarted, neverCleaned>>
    /\ UNCHANGED <<documentTags, documentMetadata, search>>

\* DownloadTokenRepository.cleanup: DELETE expired rows; return count (0 on error)
CleanupDelete(p) ==
    /\ call[p].pc = "c_delete"
    /\ \/ /\ downloadTokens' = downloadTokens \ ExpiredRows(call[p].now0)
          /\ call' = End(p, [pc |-> "done", outcome |-> "ok", status |-> 200,
                             count |-> call[p].count])
          /\ UNCHANGED faults
       \/ /\ faults < MaxStoreFaults
          /\ faults' = faults + 1
          /\ call' = End(p, [pc |-> "done", outcome |-> "ok", status |-> 200, count |-> 0])
          /\ UNCHANGED downloadTokens
    /\ UNCHANGED <<now, config, foreignKeys, documents, permissions, nextId, calls,
                   issued, redeemed, redeemStarted, neverCleaned>>
    /\ UNCHANGED <<documentTags, documentMetadata, search>>

\* ---- DELETE /documents/:id by the owner or an admin: the DELETE statement,
\* with ON DELETE CASCADE when the build enforces foreign keys
DeleteDocument(user, id) ==
    /\ \E d \in DocumentService_getDocument(id) :
          d.uploadedBy = user \/ UserRole(user) = "admin"
    /\ documents' = {d \in documents : d.id # id}
    /\ IF foreignKeys
       THEN /\ downloadTokens' = {r \in downloadTokens : r.documentId # id}
            /\ neverCleaned' = {r \in neverCleaned : r.documentId # id}
            /\ permissions' = {g \in permissions : g.documentId # id}
            /\ documentTags' = {t \in documentTags : t.documentId # id}
            /\ documentMetadata' = {m \in documentMetadata : m.documentId # id}
       ELSE UNCHANGED <<downloadTokens, neverCleaned, permissions, documentTags,
                        documentMetadata>>
    /\ UNCHANGED <<now, config, foreignKeys, nextId, faults, calls, call, issued,
                   redeemed, redeemStarted, search>>

Next ==
    \/ Tick
    \/ \E p \in Procs, in \in IssueInputs : IssueController(p, in[1], in[2])
    \/ \E p \in Procs : IssueService(p)
    \/ \E p \in Procs : IssueCreate(p)
    \/ \E p \in Procs, s \in Secrets : RedeemValidate(p, s)
    \/ \E p \in Procs : RedeemFind(p)
    \/ \E p \in Procs : RedeemMark(p)
    \/ \E p \in Procs : RedeemDeliver(p)
    \/ \E p \in Procs : CleanupSelect(p)
    \/ \E p \in Procs : CleanupDelete(p)
    \/ \E user \in Users, id \in DeletableDocs : DeleteDocument(user, id)

Spec == Init /\ [][Next]_vars
\* ------------------------------------------------------------------ claims
DocumentIds == {d.id : d \in documents}

InvalidCases == {"nomatch", "used", "expired", "used+expired"}

\* worker p takes a new request in this step
Accepts(p) == calls' = calls + 1 /\ call'[p] # call[p]

\* useDownloadToken of worker p returns a document identifier in this step
ReturnsDocument(p) == call[p].outcome = "" /\ call'[p].op = "redeem" /\ call'[p].outcome = "doc"

\* C1: of the Redeem calls that present the same secret while its token is
\* valid, unexpired and unused, exactly one returns the document identifier
\* (stated for runs without store failures, the token row still stored)
C1_ExactlyOneRedeemSucceeds ==
    \A p, q \in Procs :
        ( /\ p # q
          /\ faults = 0
          /\ call[p].op = "redeem" /\ call[q].op = "redeem"
          /\ call[p].secret = call[q].secret
          /\ \E r \in downloadTokens : r.token = call[p].secret
          /\ call[p].case = "valid" /\ call[q].case = "valid"
          /\ call[p].outcome # "" /\ call[q].outcome # "" )
        => (call[p].outcome = "doc") # (call[q].outcome = "doc")

\* C2: once a token row's usedAt is set, no step clears it or overwrites it
\* with a different value
C2_UsedAtSetOnce ==
    [][\A r \in downloadTokens : \A r2 \in downloadTokens' :
          (r2.id = r.id /\ r.usedAt # NULL) => r2.usedAt = r.usedAt]_vars

\* C3: a Redeem called when now > expiresAt returns the invalid-token outcome,
\* whether the token is used or not
C3_ExpiredNeverRedeemed ==
    \A p \in Procs :
        (call[p].op = "redeem" /\ call[p].case \in {"expired", "used+expired"})
        => (call[p].pc = "done" /\ call[p].outcome = "null")

C3_Witness ==
    \E p \in Procs :
        /\ call[p].op = "redeem" /\ call[p].case = "expired" /\ call[p].outcome = "null"
        /\ \E r \in downloadTokens : r.token = call[p].secret /\ r.usedAt = NULL

\* C4: a Redeem that starts after a Redeem of the same secret returned the
\* document returns invalid; expiresAt is never modified, and an expired token
\* that is still stored stays expired
C4_NoWayBack ==
    [][ /\ \A p \in Procs :
              (Accepts(p) /\ call'[p].op = "redeem" /\ call'[p].secret \in redeemed)
              => call'[p].outcome = "null"
        /\ \A r \in downloadTokens : \A r2 \in downloadTokens' :
              r2.id = r.id =>
                 /\ r2.expiresAt = r.expiresAt
                 /\ (r.expiresAt * MsPerSecond < now => r2.expiresAt * MsPerSecond < now')
      ]_vars

C6_SuccessMeansMarked ==
    [][\A p \in Procs :
          ReturnsDocument(p)
          => ~ \E r \in downloadTokens' : r.token = call'[p].secret /\ r.usedAt = NULL]_vars

\* C7: every token was issued to a caller who was admin, owner of the document
\* or holder of a grant on it when the token was issued
C7_IssuedOnlyToAuthorized ==
    \A s \in DOMAIN issued : issued[s].authorized

C9_IssueMissingDocument ==
    [][\A p \in Procs :
          ( /\ call'[p] # call[p]
            /\ call'[p].op = "issue"
            /\ call[p].pc \in {"idle", "done", "i_service"}
            /\ call'[p].docId \notin DocumentIds )
          => ( /\ call'[p].pc = "done"
               /\ call'[p].error = MsgDocumentNotFound
               /\ call'[p].status = 404
               /\ downloadTokens' = downloadTokens )]_vars

C9_Witness ==
    \E p \in Procs :
        /\ call[p].op = "issue" /\ call[p].pc = "done"
        /\ call[p].docId = MissingDoc
        /\ call[p].error = MsgDocumentNotFound
        /\ downloadTokens = {}

\* C10: the number Cleanup returns is the number of rows it removed, also
\* when it overlaps another Cleanup or a document delete (stated for runs
\* without store failures)
C10_CleanupCountIsRemoved ==
    [][\A p \in Procs :
          ( /\ call'[p] # call[p]
            /\ call'[p].op = "cleanup" /\ call'[p].pc = "done"
            /\ faults' = 0 )
          => call'[p].count = Cardinality(downloadTokens) - Cardinality(downloadTokens')]_vars

\* worker p's Cleanup runs its DELETE in this step
CleanupDeletes(p) == call[p].pc = "c_delete" /\ call'[p].pc = "done"

\* C11 as stated: Cleanup removes no token whose expiry has not passed, and a
\* token issued while the Cleanup was running is still stored after it
C11_IssuedDuringCleanupKept ==
    [][\A p \in Procs :
          CleanupDeletes(p)
          => \A r \in downloadTokens \ downloadTokens' :
                /\ r.expiresAt * MsPerSecond < now
                /\ r.id \in call[p].seen]_vars

\* C11 amended: every token a Cleanup removes, used or not, had its expiry
\* passed when that Cleanup started; so a token issued while the Cleanup was
\* running is removed only if it was stored already expired
C11_CleanupKeepsUnexpired ==
    [][\A p \in Procs :
          CleanupDeletes(p)
          => \A r \in downloadTokens \ downloadTokens' :
                r.expiresAt * MsPerSecond < call[p].now0]_vars

C11_Witness ==
    \E p \in Procs :
        /\ call[p].op = "cleanup" /\ call[p].pc = "done" /\ call[p].count = 0
        /\ \E r \in downloadTokens : r.usedAt # NULL /\ ~(r.expiresAt * MsPerSecond < now)

\* validateAndGetDocument evaluated over the table rows
validateIn(rows, token, t) ==
    IF \A r \in rows : r.token # token
    THEN [documentId |-> "", isValid |-> FALSE]
    ELSE LET tokenRecord == CHOOSE r \in rows : r.token = token
         IN [documentId |-> tokenRecord.documentId,
             isValid |-> ~isExpired(tokenRecord.expiresAt, t) /\ ~isUsed(tokenRecord.usedAt)]

\* C12: every Redeem ends as it does in the run that differs only in that
\* Cleanup never deleted anything: same document identifier or same invalid result
C12_RedeemIgnoresCleanup ==
    [][ /\ \A p \in Procs :
              (Accepts(p) /\ call'[p].op = "redeem")
              => IF ~createDownloadTokenOk(call'[p].secret)
                 THEN call'[p].outcome = "throw"
                 ELSE IF validateIn(neverCleaned, call'[p].secret, now).isValid
                 THEN /\ call'[p].pc = "r_find"
                      /\ call'[p].valDoc =
                            validateIn(neverCleaned, call'[p].secret, now).documentId
                 ELSE /\ call'[p].pc = "done"
                      /\ call'[p].outcome = "null"
                      /\ call'[p].error = MsgInvalidToken
        /\ \A p \in Procs :
              (call[p].op = "redeem" /\ call[p].pc \in {"r_find", "r_mark"}
                 /\ call'[p].pc = "r_getdoc")
              => (call'[p].outcome = "doc" /\ call'[p].valDoc = call[p].valDoc)
      ]_vars

C12_Witness ==
    \E p \in Procs :
        /\ call[p].op = "redeem" /\ call[p].pc = "done" /\ call[p].outcome = "null"
        /\ call[p].case = "nomatch"
        /\ \E r \in neverCleaned \ downloadTokens :
              r.token = call[p].secret /\ r.documentId \in DocumentIds

\* C13: a store failure during a token operation ends the call with an error:
\* Cleanup returns no count and Redeem returns no document identifier
C13_StoreFailureSurfaced ==
    [][\A p \in Procs :
          (faults' = faults + 1 /\ call'[p] # call[p])
          => call'[p].outcome = "error"]_vars

\* ------------------------------------------------------- permission requests
MsgPermissionExists ==
    <<"permission", "already", "exists", "for", "this", "user", "and", "document">>
MsgAccessDenied == <<"access", "denied">>

\* (caller, documentId, grantee, level) bodies sent to POST .../permissions: the
\* owner granting to another user, a stranger granting to themselves, and a
\* grant for a pair that already has one
GrantInputs == { <<"u1", "d1", "u2", "read">>, <<"u2", "d1", "u2", "admin">>,
                 <<"u2", "d2", "u1", "write">> }

\* levels sent to PUT /permissions/:permissionId
UpdateLevels == {"write"}

\* (caller, documentId) pairs of GET /documents/:id/download
AuthorizeInputs == { <<"admin", "d1">>, <<"u1", "d1">>, <<"u2", "d1">>, <<"u1", "d2">> }

\* variant: the two identifiers passed in the wrong order
findByDocumentAndUser_swapped(documentId, userId) ==
    {g \in permissions : g.documentId = userId /\ g.userId = documentId}

findByDocumentAndUser(documentId, userId) ==
    {g \in permissions : g.documentId = documentId /\ g.userId = userId}

\* ---- POST /documents/:documentId/permissions (authenticated user)
\* DocumentPermissionService.grantPermission: the existence check
GrantFind(p, user, docId, grantee, level) ==
    /\ Free(p)
    /\ calls' = calls + 1
    /\ LET req == [op |-> "grant", user |-> user, docId |-> docId,
                   grantee |-> grantee, level |-> level]
       IN IF findByDocumentAndUser(docId, grantee) # {}
          THEN call' = Begin(p, req @@ [pc |-> "done", outcome |-> "error",
                               error |-> MsgPermissionExists,
                               status |-> handleControllerError(MsgPermissionExists)])
          ELSE call' = Begin(p, req @@ [pc |-> "g_create"])
    /\ UNCHANGED <<now, config, foreignKeys, documents, permissions, downloadTokens,
                   nextId, faults, issued, redeemed, redeemStarted, neverCleaned>>
    /\ UNCHANGED <<documentTags, documentMetadata, search>>

NewPermissionRow(id, documentId, userId, permission, grantedBy, t) ==
    [id |-> id, documentId |-> documentId, userId |-> userId,
     permission |-> permission, grantedBy |-> grantedBy, grantedAt |-> StoreTimestamp(t)]

\* DocumentPermissionRepository.create, then the 201 response
GrantCreate(p) ==
    /\ call[p].pc = "g_create"
    /\ IF foreignKeys /\ DocumentRepository_findById(call[p].docId) = {}
       THEN /\ call' = End(p, [pc |-> "done", outcome |-> "error", error |-> MsgForeignKey,
                               status |-> handleControllerError(MsgForeignKey)])
            /\ UNCHANGED <<permissions, nextId>>
       ELSE /\ permissions' = permissions \cup
                   {NewPermissionRow(nextId, call[p].docId, call[p].grantee,
                                     call[p].level, call[p].user, now)}
            /\ nextId' = nextId + 1
            /\ call' = End(p, [pc |-> "done", outcome |-> "ok", status |-> 201,
                               user |-> call[p].user, grantee |-> call[p].grantee])
    /\ UNCHANGED <<now, config, foreignKeys, documents, downloadTokens, faults, calls,
                   issued, redeemed, redeemStarted, neverCleaned>>
    /\ UNCHANGED <<documentTags, documentMetadata, search>>

\* identifiers a permission row can carry
PermissionIds == 0..MaxCalls

\* ---- PUT /permissions/:permissionId (authenticated user)
\* DocumentPermissionRepository.update: one UPDATE ... RETURNING
UpdatePermission(p, id, level) ==
    /\ Free(p)
    /\ id \in {g.id : g \in permissions}
    /\ calls' = calls + 1
    /\ permissions' = {IF g.id = id THEN [g EXCEPT !.permission = level] ELSE g :
                       g \in permissions}
    /\ call' = Begin(p, [op |-> "update", pc |-> "done", tokId |-> id, level |-> level,
                         outcome |-> "ok", status |-> 200])
    /\ UNCHANGED <<now, config, foreignKeys, documents, downloadTokens, nextId, faults,
                   issued, redeemed, redeemStarted, neverCleaned>>
    /\ UNCHANGED <<documentTags, documentMetadata, search>>

\* ---- DELETE /permissions/:permissionId (authenticated user)
\* DocumentPermissionRepository.delete: the SELECT
RevokeSelect(p, id) ==
    /\ Free(p)
    /\ id \in {g.id : g \in permissions}
    /\ calls' = calls + 1
    /\ call' = Begin(p, [op |-> "revoke", pc |-> "v_delete", tokId |-> id])
    /\ UNCHANGED <<now, config, foreignKeys, documents, permissions, downloadTokens,
                   nextId, faults, issued, redeemed, redeemStarted, neverCleaned>>
    /\ UNCHANGED <<documentTags, documentMetadata, search>>

\* DocumentPermissionRepository.delete: the DELETE, then true
RevokeDelete(p) ==
    /\ call[p].pc = "v_delete"
    /\ permissions' = {g \in permissions : g.id # call[p].tokId}
    /\ call' = End(p, [pc |-> "done", outcome |-> "ok", status |-> 200,
                       tokId |-> call[p].tokId])
    /\ UNCHANGED <<now, config, foreignKeys, documents, downloadTokens, nextId, faults,
                   calls, issued, redeemed, redeemStarted, neverCleaned>>
    /\ UNCHANGED <<documentTags, documentMetadata, search>>

\* ---- GET /documents/:id/download (authenticated user)
\* variant: the owner test dropped
isAdminOrOwner_noOwner(userId, userRole, document) == userRole = "admin"

\* checkDocumentAccess before its first await: admin, then owner
isAdminOrOwner(userId, userRole, document) ==
    userRole = "admin" \/ document.uploadedBy = userId

\* variant: the grantor compared in place of the grantee
somePermission_grantedBy(rows, userId) == \E g \in rows : g.grantedBy = userId

\* variant: only a grant made in the current second counts
somePermission_recent(rows, userId) ==
    \E g \in rows : g.userId = userId /\ g.grantedAt = StoreTimestamp(now)

\* permissions.some((permission) => permission.userId === userId)
somePermission(rows, userId) == \E g \in rows : g.userId = userId

\* variant: allow when the lookup throws
onLookupError_allow == TRUE

\* the catch branch of checkDocumentAccess
onLookupError == FALSE

\* what downloadDocument answers for a checkDocumentAccess result
AccessResponse(hasAccess) ==
    IF hasAccess THEN [outcome |-> "ok", error |-> MsgNone, status |-> 200]
    ELSE [outcome |-> "denied", error |-> MsgAccessDenied, status |-> 403]

\* downloadDocument: getDocument, then checkDocumentAccess up to its lookup
AuthorizeStart(p, user, docId) ==
    /\ Free(p)
    /\ calls' = calls + 1
    /\ LET found == DocumentService_getDocument(docId)
           req == [op |-> "authorize", user |-> user, docId |-> docId]
       IN IF found = {}
          THEN call' = Begin(p, req @@ [pc |-> "done", outcome |-> "error",
                               error |-> MsgDocumentNotFound, status |-> 404])
          ELSE LET document == CHOOSE d \in found : TRUE
               IN IF isAdminOrOwner(user, UserRole(user), document)
                  THEN call' = Begin(p, req @@ AccessResponse(TRUE) @@
                                 [pc |-> "done", owner |-> document.uploadedBy,
                                  case |-> "early", allowed |-> TRUE])
                  ELSE call' = Begin(p, req @@ [pc |-> "a_lookup",
                                  owner |-> document.uploadedBy])
    /\ UNCHANGED <<now, config, foreignKeys, documents, permissions, downloadTokens,
                   nextId, faults, issued, redeemed, redeemStarted, neverCleaned>>
    /\ UNCHANGED <<documentTags, documentMetadata, search>>

\* checkDocumentAccess: getDocumentPermissions inside try/catch, then the response
AuthorizeLookup(p) ==
    /\ call[p].pc = "a_lookup"
    /\ \/ /\ LET hasAccess == somePermission(getDocumentPermissions(call[p].docId),
                                             call[p].user)
             IN call' = End(p, AccessResponse(hasAccess) @@
                            [pc |-> "done", user |-> call[p].user, owner |-> call[p].owner,
                             case |-> "looked-up", allowed |-> hasAccess,
                             seen |-> getDocumentPermissions(call[p].docId)])
          /\ UNCHANGED faults
       \/ /\ faults < MaxStoreFaults
          /\ faults' = faults + 1
          /\ call' = End(p, AccessResponse(onLookupError) @@
                         [pc |-> "done", user |-> call[p].user, owner |-> call[p].owner,
                          case |-> "lookup-failed", allowed |-> onLookupError,
                          seen |-> getDocumentPermissions(call[p].docId)])
    /\ UNCHANGED <<now, config, foreignKeys, documents, permissions, downloadTokens,
                   nextId, calls, issued, redeemed, redeemStarted, neverCleaned>>
    /\ UNCHANGED <<documentTags, documentMetadata, search>>

PermNext ==
    \/ Tick
    \/ \E p \in Procs, in \in GrantInputs : GrantFind(p, in[1], in[2], in[3], in[4])
    \/ \E p \in Procs : GrantCreate(p)
    \/ \E p \in Procs, id \in PermissionIds, level \in UpdateLevels :
          UpdatePermission(p, id, level)
    \/ \E p \in Procs, id \in PermissionIds : RevokeSelect(p, id)
    \/ \E p \in Procs : RevokeDelete(p)
    \/ \E p \in Procs, in \in AuthorizeInputs : AuthorizeStart(p, in[1], in[2])
    \/ \E p \in Procs : AuthorizeLookup(p)
    \/ \E user \in Users, id \in DeletableDocs : DeleteDocument(user, id)

PermSpec == Init /\ [][PermNext]_vars

\* ------------------------------------------------------ claims on permissions
\* a grant for (documentId, userId) is stored
HoldsGrant(documentId, userId) ==
    \E g \in permissions : g.documentId = documentId /\ g.userId = userId

\* worker p has answered an access check on a document that was found
Authorized(p) ==
    call[p].op = "authorize" /\ call[p].pc = "done" /\ call[p].outcome # "error"

\* C14: Authorize for an admin or for the owner of the document returns true,
\* whatever grants are stored
C14_AdminOrOwnerAllowed ==
    \A p \in Procs :
        (Authorized(p) /\ (UserRole(call[p].user) = "admin" \/ call[p].owner = call[p].user))
        => (call[p].allowed /\ call[p].status = 200)

C14_Witness ==
    \E p \in Procs :
        /\ Authorized(p) /\ call[p].user = call[p].owner /\ UserRole(call[p].user) = "user"
        /\ call[p].allowed
        /\ ~HoldsGrant(call[p].docId, call[p].user)

\* worker p's access check runs its grant lookup in this step
LooksUp(p) == call[p].pc = "a_lookup" /\ call'[p].pc = "done"

\* C15 as stated: for a non-admin, non-owner user Authorize is true exactly
\* when a grant for (document, user) is stored, whatever its level
C15_AllowedIffGrant ==
    [][\A p \in Procs :
          LooksUp(p) => (call'[p].allowed <=> HoldsGrant(call[p].docId, call[p].user))]_vars

\* C15 amended: the same when the lookup succeeds; when the lookup fails the
\* result is false although a grant may be stored
C15_AllowedIffGrantFound ==
    [][\A p \in Procs :
          LooksUp(p)
          => IF faults' = faults
             THEN call'[p].allowed <=> HoldsGrant(call[p].docId, call[p].user)
             ELSE ~call'[p].allowed]_vars

C15_Witness ==
    \E p, q \in Procs :
        /\ call[q].op = "revoke" /\ call[q].pc = "done"
        /\ Authorized(p) /\ call[p].case = "looked-up" /\ ~call[p].allowed
        /\ call[p].user = "u1" /\ call[p].docId = "d2"
        /\ ~HoldsGrant("d2", "u1")

\* C16: when the grant lookup of Authorize fails the result is false and the
\* caller gets the ordinary denial, not an error
C16_FailClosed ==
    [][\A p \in Procs :
          (LooksUp(p) /\ faults' = faults + 1)
          => ( /\ ~call'[p].allowed
               /\ call'[p].outcome = "denied"
               /\ call'[p].error = MsgAccessDenied
               /\ call'[p].status = 403 )]_vars

C16_Witness ==
    \E p \in Procs :
        /\ Authorized(p) /\ call[p].case = "lookup-failed" /\ ~call[p].allowed
        /\ HoldsGrant(call[p].docId, call[p].user)

C18_OneGrantPerPair ==
    \A g, h \in permissions :
        (g.documentId = h.documentId /\ g.userId = h.userId) => g = h

\* C19: grantPermission for a pair that already has a grant ends with the
\* conflict error and leaves the permission store as it was
C19_SecondGrantConflicts ==
    [][\A p \in Procs :
          ( /\ Accepts(p) /\ call'[p].op = "grant"
            /\ HoldsGrant(call'[p].docId, call'[p].grantee) )
          => ( /\ call'[p].pc = "done"
               /\ call'[p].error = MsgPermissionExists
               /\ call'[p].status = 409
               /\ permissions' = permissions )]_vars

C19_Witness ==
    \E p \in Procs :
        /\ call[p].op = "grant" /\ call[p].pc = "done"
        /\ call[p].error = MsgPermissionExists /\ call[p].status = 409
        /\ permissions = {[id |-> 0, documentId |-> "d2", userId |-> "u1",
                           permission |-> "read", grantedBy |-> "u2", grantedAt |-> 0]}
        /\ now > 0

\* C20: every grant is created by an admin, the owner of the document or a
\* user who holds a grant on it when the new grant is stored
C20_GrantedByAuthorized ==
    [][\A g \in permissions' \ permissions :
          (\A h \in permissions : h.id # g.id)
          => \/ UserRole(g.grantedBy) = "admin"
             \/ \E d \in documents : d.id = g.documentId /\ d.uploadedBy = g.grantedBy
             \/ HoldsGrant(g.documentId, g.grantedBy)]_vars

C20_Witness ==
    \E p \in Procs :
        /\ Authorized(p) /\ call[p].user = "u2" /\ call[p].docId = "d1"
        /\ call[p].case = "looked-up" /\ call[p].allowed
        /\ \A g \in permissions :
              (g.documentId = "d1" /\ g.userId = "u2") => g.grantedBy = "u2"

\* ------------------------------------------------- further claims on tokens
\* C28: no step of a Redeem whose token was unknown, used or expired when it
\* was presented changes the token store
C28_InvalidRedeemChangesNothing ==
    [][\A p \in Procs :
          ( /\ call'[p] # call[p]
            /\ call'[p].op = "redeem"
            /\ call'[p].case \in InvalidCases )
          => downloadTokens' = downloadTokens]_vars

C28_Witness ==
    \E p \in Procs :
        /\ call[p].op = "redeem" /\ call[p].pc = "done" /\ call[p].outcome = "null"
        /\ call[p].secret = UnknownSecret /\ call[p].case = "nomatch"
        /\ \E r \in downloadTokens : r.usedAt = NULL /\ ~(r.expiresAt * MsPerSecond < now)

\* worker p answers the download with the file in this step
Delivers(p) ==
    call[p].pc = "r_getdoc" /\ call'[p].pc = "done" /\ call'[p].status = 200

\* C30: the token is marked used before the document is looked up, each token
\* leads to at most one delivery, and a retry after a successful Redeem is
\* answered invalid
C30_AtMostOneDelivery ==
    [][ /\ \A p \in Procs :
              call'[p].pc = "r_getdoc" /\ call[p].pc # "r_getdoc"
              => \A r \in downloadTokens' : r.token = call'[p].secret => r.usedAt # NULL
        /\ \A p, q \in Procs :
              ( /\ p # q /\ Delivers(p)
                /\ call[q].op = "redeem" /\ call[q].pc = "done" /\ call[q].status = 200 )
              => call[q].secret # call[p].secret
        /\ \A p \in Procs :
              (Accepts(p) /\ call'[p].op = "redeem" /\ call'[p].secret \in redeemed)
              => call'[p].outcome = "null"
      ]_vars

\* ------------------------------------------------------- document deletion
MsgFailedDelete == <<"failed", "to", "delete", "document">>

\* (caller, id) pairs sent to DELETE /documents/:id: the owner, a user who may
\* hold a grant, an admin, and an identifier with no document
DeleteInputs == { <<"u1", "d1">>, <<"u2", "d1">>, <<"admin", "d1">>, <<"u1", MissingDoc>> }

\* variant: a holder of a 'delete' or 'admin' grant may delete as well
mayDelete_withGrant(document, user) ==
    \/ document.uploadedBy = user
    \/ UserRole(user) = "admin"
    \/ \E g \in permissions : /\ g.documentId = document.id /\ g.userId = user
                              /\ g.permission \in {"delete", "admin"}

\* DocumentController.deleteDocument: the ownership test
mayDelete(document, user) ==
    document.uploadedBy = user \/ UserRole(user) = "admin"

\* ---- DELETE /documents/:id (authenticated user)
\* DocumentController.deleteDocument: getDocument, then the ownership test
DeleteStart(p, user, id) ==
    /\ Free(p)
    /\ calls' = calls + 1
    /\ LET found == DocumentService_getDocument(id)
           req == [op |-> "delete", user |-> user, docId |-> id]
       IN IF found = {}
          THEN call' = Begin(p, req @@ [pc |-> "done", outcome |-> "error",
                               error |-> MsgDocumentNotFound,
                               status |-> handleControllerError(MsgDocumentNotFound)])
          ELSE IF ~mayDelete(CHOOSE d \in found : TRUE, user)
          THEN call' = Begin(p, req @@ [pc |-> "done", outcome |-> "error",
                               error |-> MsgAccessDenied,
                               status |-> handleControllerError(MsgAccessDenied)])
          ELSE call' = Begin(p, req @@ [pc |-> "x_find"])
    /\ UNCHANGED <<now, config, foreignKeys, documents, permissions, downloadTokens,
                   nextId, faults, issued, redeemed, redeemStarted, neverCleaned,
                   documentTags, documentMetadata, search>>

\* DocumentService.deleteDocument: findById, then the file is unlinked
DeleteFind(p) ==
    /\ call[p].pc = "x_find"
    /\ IF DocumentRepository_findById(call[p].docId) = {}
       THEN call' = End(p, [pc |-> "done", outcome |-> "error", error |-> MsgFailedDelete,
                            status |-> handleControllerError(MsgFailedDelete)])
       ELSE call' = Set(p, [pc |-> "x_delete"])
    /\ UNCHANGED <<now, config, foreignKeys, documents, permissions, downloadTokens,
                   nextId, faults, calls, issued, redeemed, redeemStarted, neverCleaned,
                   documentTags, documentMetadata, search>>

\* DocumentRepository.delete: DELETE FROM documents WHERE id = ?; the rows that
\* reference the document go with it only if the connection enforces foreign keys
DeleteRow(p) ==
    /\ call[p].pc = "x_delete"
    /\ documents' = {d \in documents : d.id # call[p].docId}
    /\ IF foreignKeys
       THEN /\ downloadTokens' = {r \in downloadTokens : r.documentId # call[p].docId}
            /\ neverCleaned' = {r \in neverCleaned : r.documentId # call[p].docId}
            /\ permissions' = {g \in permissions : g.documentId # call[p].docId}
            /\ documentTags' = {t \in documentTags : t.documentId # call[p].docId}
            /\ documentMetadata' = {m \in documentMetadata : m.documentId # call[p].docId}
       ELSE UNCHANGED <<downloadTokens, neverCleaned, permissions, documentTags,
                        documentMetadata>>
    /\ call' = Set(p, [pc |-> "x_verify"])
    /\ UNCHANGED <<now, config, foreignKeys, nextId, faults, calls, issued, redeemed,
                   redeemStarted, search>>

\* DocumentRepository.delete: findById again, success iff the row is gone
DeleteVerify(p) ==
    /\ call[p].pc = "x_verify"
    /\ IF DocumentRepository_findById(call[p].docId) = {}
       THEN call' = End(p, [pc |-> "done", outcome |-> "ok", status |-> 200])
       ELSE call' = End(p, [pc |-> "done", outcome |-> "error", error |-> MsgFailedDelete,
                            status |-> handleControllerError(MsgFailedDelete)])
    /\ UNCHANGED <<now, config, foreignKeys, documents, permissions, downloadTokens,
                   nextId, faults, calls, issued, redeemed, redeemStarted, neverCleaned,
                   documentTags, documentMetadata, search>>

DocNext ==
    \/ \E p \in Procs, in \in DeleteInputs : DeleteStart(p, in[1], in[2])
    \/ \E p \in Procs : DeleteFind(p)
    \/ \E p \in Procs : DeleteRow(p)
    \/ \E p \in Procs : DeleteVerify(p)
    \/ \E p \in Procs, in \in IssueInputs : IssueController(p, in[1], in[2])
    \/ \E p \in Procs : IssueService(p)
    \/ \E p \in Procs : IssueCreate(p)
    \/ \E p \in Procs, in \in GrantInputs : GrantFind(p, in[1], in[2], in[3], in[4])
    \/ \E p \in Procs : GrantCreate(p)

DocSpec == Init /\ [][DocNext]_vars

\* C21: when a delete reports success no grant, tag, metadata entry or download
\* token of the document remains, and no state shows a deleted document whose
\* dependants are still stored
C21_DeleteLeavesNoDependants ==
    [][ /\ \A p \in Procs :
              ( /\ call[p].pc = "x_verify" /\ call'[p].pc = "done"
                /\ call'[p].outcome = "ok" )
              => { x \in downloadTokens' \cup permissions' \cup documentTags'
                         \cup documentMetadata' : x.documentId = call'[p].docId } = {}
        /\ \A d \in documents :
              (d \notin documents')
              => { x \in downloadTokens' \cup permissions' \cup documentTags'
                         \cup documentMetadata' : x.documentId = d.id } = {}
      ]_vars

\* the tables a delete can touch
DocumentStore ==
    <<documents, permissions, downloadTokens, documentTags, documentMetadata>>

\* C22: a document leaves the store only through a delete requested by its
\* owner or an admin; a delete requested by anyone else, whatever grant they
\* hold, is answered 'Access denied' and changes nothing
C22_DeleteOnlyByOwnerOrAdmin ==
    [][ /\ \A d \in documents :
              (d \notin documents')
              => \E p \in Procs :
                    /\ call[p].op = "delete" /\ call[p].docId = d.id
                    /\ (call[p].user = d.uploadedBy \/ UserRole(call[p].user) = "admin")
        /\ \A p \in Procs :
              ( /\ Accepts(p) /\ call'[p].op = "delete"
                /\ \E d \in documents :
                      /\ d.id = call'[p].docId
                      /\ d.uploadedBy # call'[p].user
                      /\ UserRole(call'[p].user) # "admin" )
              => /\ call'[p].pc = "done"
                 /\ call'[p].error = MsgAccessDenied
                 /\ call'[p].status = 403
                 /\ DocumentStore' = DocumentStore
        /\ \A p \in Procs :
              (call'[p].op = "delete" /\ call'[p].error = MsgAccessDenied /\ call[p] # call'[p])
              => DocumentStore' = DocumentStore
      ]_vars

C22_Witness ==
    \E p \in Procs :
        /\ call[p].op = "delete" /\ call[p].pc = "done"
        /\ call[p].error = MsgAccessDenied /\ call[p].status = 403
        /\ \E d \in documents : d.id = call[p].docId /\ d.uploadedBy # "u2"
        /\ \E g \in permissions :
              /\ g.documentId = call[p].docId /\ g.userId = "u2"
              /\ g.permission \in {"delete", "admin"}
        /\ \A q \in Procs : call[q].op = "delete" => call[q].user = "u2"

\* C29: every download token and every permission grant in the store references
\* a document that is in the store
C29_ReferentialIntegrity ==
    /\ \A r \in downloadTokens : r.documentId \in DocumentIds
    /\ \A g \in permissions : g.documentId \in DocumentIds

\* ------------------------------------------------------------------ search
\* strings are sequences of characters; SQLite folds the case of ASCII letters
LowerChar(c) == IF c = "A" THEN "a" ELSE IF c = "B" THEN "b" ELSE c

toLowerCase(s) == [i \in 1..Len(s) |-> LowerChar(s[i])]

RECURSIVE trimStart(_)
trimStart(s) == IF s # << >> /\ Head(s) = " " THEN trimStart(Tail(s)) ELSE s

RECURSIVE trimEnd(_)
trimEnd(s) ==
    IF s # << >> /\ s[Len(s)] = " " THEN trimEnd(SubSeq(s, 1, Len(s) - 1)) ELSE s

trim(s) == trimEnd(trimStart(s))

\* s.split(",")
RECURSIVE split(_)
split(s) ==
    IF \E i \in 1..Len(s) : s[i] = ","
    THEN LET i == CHOOSE k \in 1..Len(s) : s[k] = "," /\ \A j \in 1..(k - 1) : s[j] # ","
         IN <<SubSeq(s, 1, i - 1)>> \o split(SubSeq(s, i + 1, Len(s)))
    ELSE <<s>>

\* SQL LIKE: % stands for any run of characters, _ for any one character,
\* letters compare without case
RECURSIVE like(_, _)
like(value, pattern) ==
    IF pattern = << >> THEN value = << >>
    ELSE IF Head(pattern) = "%"
    THEN like(value, Tail(pattern)) \/ (value # << >> /\ like(Tail(value), pattern))
    ELSE IF value = << >> THEN FALSE
    ELSE IF Head(pattern) = "_" \/ LowerChar(Head(pattern)) = LowerChar(Head(value))
    THEN like(Tail(value), Tail(pattern))
    ELSE FALSE

\* the pattern `%${term}%`
Around(term) == <<"%">> \o term \o <<"%">>

\* code points of the characters in use, for the BINARY collation
CharCode ==
    (" " :> 32) @@ ("," :> 44) @@ ("A" :> 65) @@ ("B" :> 66) @@ ("_" :> 95)
        @@ ("a" :> 97) @@ ("b" :> 98) @@ ("c" :> 99) @@ ("d" :> 100) @@ ("j" :> 106)
        @@ ("k" :> 107) @@ ("q" :> 113) @@ ("x" :> 120) @@ ("y" :> 121) @@ ("z" :> 122)

RECURSIVE LexLess(_, _)
LexLess(a, b) ==
    IF b = << >> THEN FALSE
    ELSE IF a = << >> THEN TRUE
    ELSE IF Head(a) = Head(b) THEN LexLess(Tail(a), Tail(b))
    ELSE CharCode[Head(a)] < CharCode[Head(b)]

NonEmpty(t) == t # << >>

\* DocumentSearchSchema.parse of a valid query
DocumentSearchSchema(query) ==
    [filename |-> trim(query.filename),
     mimeType |-> trim(query.mimeType),
     uploadedBy |-> query.uploadedBy,
     tags |-> SelectSeq([i \in 1..Len(split(query.tags)) |-> trim(split(query.tags)[i])],
                        NonEmpty),
     metadata |-> { <<trim(e[1]), trim(e[2])>> :
                       e \in {x \in query.metadata :
                                 Len(trim(x[1])) > 0 /\ Len(trim(x[2])) > 0} },
     page |-> query.page, limit |-> query.limit,
     sortBy |-> query.sortBy, sortOrder |-> query.sortOrder]

\* DocumentController.searchDocuments: hasActualSearchCriteria
hasActualSearchCriteria(options, user) ==
    \/ options.filename # << >>
    \/ options.mimeType # << >>
    \/ (options.uploadedBy # "" /\ UserRole(user) = "admin")
    \/ Len(options.tags) > 0
    \/ options.metadata # {}

\* variant: the owner scope taken from the request for every caller
scopeOptions_asRequested(options, user) == options

\* DocumentController.searchDocuments: the scope by role
scopeOptions(options, user) ==
    IF UserRole(user) = "admin" THEN options ELSE [options EXCEPT !.uploadedBy = user]

\* shortest filename, tag or metadata value that counts as a search term
MinTermLength == 2

Meaningful(t) == Len(t) >= MinTermLength

\* variant: every non-blank tag counts
meaningfulTags_all(tags) ==
    SelectSeq([i \in 1..Len(tags) |-> trim(toLowerCase(tags[i]))], NonEmpty)

meaningfulTags(tags) ==
    SelectSeq([i \in 1..Len(tags) |-> trim(toLowerCase(tags[i]))], Meaningful)

meaningfulMetadata(metadata) ==
    {e \in metadata : Len(trim(e[1])) > 0 /\ Len(trim(e[2])) >= MinTermLength}

\* variant: the owner scope counts as a search criterion
hasSearchCriteria_withOwner(options) ==
    \/ Len(trim(options.filename)) >= MinTermLength
    \/ Len(trim(options.mimeType)) > 0
    \/ options.uploadedBy # ""
    \/ \E i \in 1..Len(options.tags) : Len(trim(options.tags[i])) >= MinTermLength
    \/ meaningfulMetadata(options.metadata) # {}

\* DocumentRepository.search: hasSearchCriteria
hasSearchCriteria(options) ==
    \/ Len(trim(options.filename)) >= MinTermLength
    \/ Len(trim(options.mimeType)) > 0
    \/ \E i \in 1..Len(options.tags) : Len(trim(options.tags[i])) >= MinTermLength
    \/ meaningfulMetadata(options.metadata) # {}

\* the conditions on the documents row itself
mainWhereClause(d, options) ==
    /\ Len(trim(options.filename)) >= MinTermLength
       => LET searchTerm == toLowerCase(trim(options.filename))
          IN like(d.filename, Around(searchTerm)) \/ like(d.originalName, Around(searchTerm))
    /\ options.mimeType # << >> => d.mimeType = options.mimeType
    /\ options.uploadedBy # "" => d.uploadedBy = options.uploadedBy

finalWhereClause(d, sr) ==
    /\ mainWhereClause(d, sr.options)
    /\ sr.tagFilter => d.id \in sr.tagIds
    /\ sr.metaFilter => d.id \in sr.metaIds

\* the empty page the search returns from its short cuts
EmptyPage(sr) ==
    [sr EXCEPT !.pc = "done", !.data = << >>, !.total = 0, !.totalPages = 0,
               !.page = sr.options.page, !.limit = sr.options.limit]

\* the metadata stage up to its query
StageMetadata(sr) ==
    IF sr.options.metadata # {}
    THEN IF meaningfulMetadata(sr.options.metadata) = {}
         THEN EmptyPage([sr EXCEPT !.metaFilter = TRUE])
         ELSE [sr EXCEPT !.pc = "s_meta"]
    ELSE [sr EXCEPT !.pc = "s_count"]

\* the tag stage up to its query
StageTags(sr) ==
    IF Len(sr.options.tags) > 0
    THEN IF meaningfulTags(sr.options.tags) = << >>
         THEN EmptyPage([sr EXCEPT !.tagFilter = TRUE])
         ELSE [sr EXCEPT !.pc = "s_tags"]
    ELSE StageMetadata(sr)

KeyLess(d, e, sortBy) ==
    IF sortBy = "filename" THEN LexLess(d.filename, e.filename)
    ELSE IF sortBy = "size" THEN d.size < e.size
    ELSE d.createdAt < e.createdAt

\* d comes before e in ORDER BY <column> <order>; rows with equal keys come in
\* the order of the table scan
Precedes(d, e, options) ==
    LET before == IF options.sortOrder = "asc" THEN KeyLess(d, e, options.sortBy)
                  ELSE KeyLess(e, d, options.sortBy)
        after == IF options.sortOrder = "asc" THEN KeyLess(e, d, options.sortBy)
                 ELSE KeyLess(d, e, options.sortBy)
    IN before \/ (~after /\ d.rowid < e.rowid)

orderBy(rows, options) ==
    [i \in 1..Cardinality(rows) |->
        CHOOSE d \in rows : Cardinality({e \in rows : Precedes(e, d, options)}) = i - 1]

\* variant: pages counted from zero
offset_fromZero(page, limit) == page * limit

offset(page, limit) == (page - 1) * limit

Min(a, b) == IF a < b THEN a ELSE b

\* LIMIT limit OFFSET off
limitOffset(rows, limit, off) == SubSeq(rows, off + 1, Min(off + limit, Len(rows)))

\* Math.ceil(total / limit)
ceil(total, limit) ==
    IF total % limit = 0 THEN total \div limit ELSE total \div limit + 1

\* largest page number and page size requested
MaxPage == 3
MaxLimit == 2

FilenameTerms == { << >>, <<"a">>, <<" ", "A", "B">>, <<"a", "_">> }
MimeTerms == { << >>, <<"pdf">> }
OwnerTerms == { "", "u1", "u2" }
TagTerms == { << >>, <<",">>, <<"z">>, <<"c", "d">>, <<"a", "b", ",", "c", "d">>,
              <<"q", "q">> }
MetadataTerms ==
    { {}, { <<<<"k">>, <<" ">>>> }, { <<<<"k">>, <<"a">>>> }, { <<<<"k">>, <<"a", "b">>>> },
      { <<<<"k">>, <<"a", "b">>>>, <<<<"j">>, <<"c", "d">>>> }, { <<<<"k">>, <<"q", "q">>>> } }
SortChoices == { <<"createdAt", "desc">>, <<"size", "asc">>, <<"filename", "asc">> }

\* ---- GET /documents/search (authenticated user)
\* DocumentController.searchDocuments and DocumentRepository.search up to the
\* first query
SearchController ==
    /\ search.pc = "idle"
    /\ \E user \in Users, filename \in FilenameTerms, mimeType \in MimeTerms,
          uploadedBy \in OwnerTerms, tags \in TagTerms, metadata \in MetadataTerms,
          page \in 1..MaxPage, limit \in 1..MaxLimit, sort \in SortChoices :
          LET query == [filename |-> filename, mimeType |-> mimeType,
                        uploadedBy |-> uploadedBy, tags |-> tags, metadata |-> metadata,
                        page |-> page, limit |-> limit,
                        sortBy |-> sort[1], sortOrder |-> sort[2]]
              searchOptions == DocumentSearchSchema(query)
              options == scopeOptions(searchOptions, user)
              sr == [NoSearch EXCEPT !.user = user, !.query = query, !.options = options]
          IN search' = IF ~hasActualSearchCriteria(searchOptions, user) THEN EmptyPage(sr)
                       ELSE IF ~hasSearchCriteria(options) THEN EmptyPage(sr)
                       ELSE StageTags(sr)
    /\ UNCHANGED <<now, config, foreignKeys, documents, permissions, downloadTokens,
                   nextId, faults, calls, call, issued, redeemed, redeemStarted,
                   neverCleaned, documentTags, documentMetadata>>

\* SELECT DISTINCT document_id FROM document_tags WHERE tag IN (...)
SearchTags ==
    /\ search.pc = "s_tags"
    /\ LET wanted == meaningfulTags(search.options.tags)
           ids == {t.documentId :
                      t \in {x \in documentTags : \E i \in 1..Len(wanted) : x.tag = wanted[i]}}
           sr == [search EXCEPT !.tagFilter = TRUE, !.tagIds = ids,
                                !.queries = Append(@, "tags")]
       IN search' = IF ids = {} THEN EmptyPage(sr) ELSE StageMetadata(sr)
    /\ UNCHANGED <<now, config, foreignKeys, documents, permissions, downloadTokens,
                   nextId, faults, calls, call, issued, redeemed, redeemStarted,
                   neverCleaned, documentTags, documentMetadata>>

\* SELECT DISTINCT document_id FROM document_metadata WHERE (key = ? AND value LIKE ?) OR ...
SearchMetadata ==
    /\ search.pc = "s_meta"
    /\ LET wanted == meaningfulMetadata(search.options.metadata)
           ids == {m.documentId :
                      m \in {x \in documentMetadata :
                                \E e \in wanted : /\ x.key = trim(e[1])
                                                  /\ like(x.value, Around(trim(e[2])))}}
           sr == [search EXCEPT !.metaFilter = TRUE, !.metaIds = ids,
                                !.queries = Append(@, "metadata")]
       IN search' = IF ids = {} THEN EmptyPage(sr) ELSE [sr EXCEPT !.pc = "s_count"]
    /\ UNCHANGED <<now, config, foreignKeys, documents, permissions, downloadTokens,
                   nextId, faults, calls, call, issued, redeemed, redeemStarted,
                   neverCleaned, documentTags, documentMetadata>>

\* SELECT count(*) FROM documents WHERE ...
SearchCount ==
    /\ search.pc = "s_count"
    /\ LET total == Cardinality({d \in documents : finalWhereClause(d, search)})
           sr == [search EXCEPT !.queries = Append(@, "count")]
       IN search' = IF total = 0 THEN EmptyPage(sr)
                    ELSE [sr EXCEPT !.pc = "s_fetch", !.total = total]
    /\ UNCHANGED <<now, config, foreignKeys, documents, permissions, downloadTokens,
                   nextId, faults, calls, call, issued, redeemed, redeemStarted,
                   neverCleaned, documentTags, documentMetadata>>

\* SELECT * FROM documents WHERE ... ORDER BY ... LIMIT ? OFFSET ?, then the page
SearchFetch ==
    /\ search.pc = "s_fetch"
    /\ LET rows == orderBy({d \in documents : finalWhereClause(d, search)}, search.options)
       IN search' = [search EXCEPT
                        !.pc = "done",
                        !.queries = Append(@, "fetch"),
                        !.data = limitOffset(rows, search.options.limit,
                                             offset(search.options.page, search.options.limit)),
                        !.page = search.options.page,
                        !.limit = search.options.limit,
                        !.totalPages = ceil(search.total, search.options.limit)]
    /\ UNCHANGED <<now, config, foreignKeys, documents, permissions, downloadTokens,
                   nextId, faults, calls, call, issued, redeemed, redeemStarted,
                   neverCleaned, documentTags, documentMetadata>>

SearchNext ==
    \/ SearchController
    \/ SearchTags
    \/ SearchMetadata
    \/ SearchCount
    \/ SearchFetch

SearchSpec == Init /\ [][SearchNext]_vars

\* --------------------------------------------------------- claims on search
\* the request carries a meaningful criterion: a filename, tag or metadata value
\* of at least two characters after trimming, or a content type
MeaningfulRequest(query) ==
    \/ Len(trim(query.filename)) >= 2
    \/ \E e \in query.metadata : Len(trim(e[2])) >= 2
    \/ \E i \in 1..Len(split(query.tags)) : Len(trim(split(query.tags)[i])) >= 2
    \/ trim(query.mimeType) # << >>

IsEmptyPage == search.data = << >> /\ search.total = 0 /\ search.totalPages = 0

\* C23: a search request with no meaningful criterion is answered at once with
\* the empty page, total 0 and totalPages 0, and no storage query is issued
C23_SignificanceGate ==
    (search.pc # "idle" /\ ~MeaningfulRequest(search.query))
    => /\ search.pc = "done"
       /\ IsEmptyPage
       /\ search.queries = << >>

C23_Witness ==
    /\ search.pc = "done" /\ search.user = "admin"
    /\ search.query.filename = <<"a">> /\ search.query.uploadedBy = "u2"
    /\ search.query.tags = <<",">> /\ search.query.page = 2
    /\ ~MeaningfulRequest(search.query)
    /\ IsEmptyPage /\ search.queries = << >>
    /\ \E d \in documents : d.uploadedBy = "u2"

\* term occurs in s, letters compared without case
Contains(s, term) ==
    \E i \in 1..(Len(s) - Len(term) + 1) :
        toLowerCase(SubSeq(s, i, i + Len(term) - 1)) = toLowerCase(term)

\* document d satisfies every criterion of the request of search record sr
Satisfies(d, sr) ==
    /\ sr.options.filename # << >>
       => Contains(d.filename, sr.options.filename)
          \/ Contains(d.originalName, sr.options.filename)
    /\ sr.options.mimeType # << >> => d.mimeType = sr.options.mimeType
    /\ sr.options.uploadedBy # "" => d.uploadedBy = sr.options.uploadedBy
    /\ Len(sr.options.tags) > 0
       => \E t \in documentTags :
             /\ t.documentId = d.id
             /\ \E i \in 1..Len(sr.options.tags) : t.tag = toLowerCase(sr.options.tags[i])
    /\ sr.options.metadata # {}
       => \E m \in documentMetadata, e \in sr.options.metadata :
             m.documentId = d.id /\ m.key = e[1] /\ Contains(m.value, e[2])

\* C24: a search that reaches its count query matches exactly the documents that
\* satisfy every supplied criterion (filename substring, exact content type,
\* owner, at least one requested tag, at least one requested metadata pair), and
\* every returned document satisfies them
C24_MatchedSetExact ==
    (search.pc = "done" /\ \E i \in 1..Len(search.queries) : search.queries[i] = "count")
    => /\ search.total = Cardinality({d \in documents : Satisfies(d, search)})
       /\ \A i \in 1..Len(search.data) : Satisfies(search.data[i], search)

\* the search issued the named query
Issued(name) == \E i \in 1..Len(search.queries) : search.queries[i] = name

\* no term of the raw tag list is meaningful
NoMeaningfulTag(query) ==
    \A i \in 1..Len(split(query.tags)) : Len(trim(split(query.tags)[i])) < 2

\* no pair of the raw metadata filter has a key and a meaningful value
NoMeaningfulPair(query) ==
    \A e \in query.metadata : Len(trim(e[1])) = 0 \/ Len(trim(e[2])) < 2

\* no stored tag is one of the requested tags
NoTagMatch(query) ==
    \A t \in documentTags :
        \A i \in 1..Len(split(query.tags)) :
            t.tag # toLowerCase(trim(split(query.tags)[i]))

\* no stored metadata entry has a requested key and a value matching its term
NoPairMatch(query) ==
    \A m \in documentMetadata :
        \A e \in query.metadata :
            Len(trim(e[2])) >= 2 => ~(m.key = trim(e[1]) /\ like(m.value, Around(trim(e[2]))))

\* C25 as stated: a tag or metadata sub-filter present in the request without a
\* meaningful term, or matching no document, gives the empty page before the
\* count and fetch queries
C25_EmptySubFilterEmptiesResult ==
    ( /\ search.pc = "done"
      /\ MeaningfulRequest(search.query)
      /\ \/ (search.query.tags # << >>
             /\ (NoMeaningfulTag(search.query) \/ NoTagMatch(search.query)))
         \/ (search.query.metadata # {}
             /\ (NoMeaningfulPair(search.query) \/ NoPairMatch(search.query))) )
    => IsEmptyPage /\ ~Issued("count") /\ ~Issued("fetch")

\* C25: a tag or metadata sub-filter that keeps at least one non-blank term
\* after parsing but has no meaningful term, or matches no document, gives the
\* empty page before the count and fetch queries; a sub-filter whose terms are
\* all blank is dropped by the parser and does not restrict the search
C25_NonBlankSubFilterEmptiesResult ==
    /\ ( /\ search.pc = "done"
         /\ hasSearchCriteria(search.options)
         /\ \/ (Len(search.options.tags) > 0
                /\ (NoMeaningfulTag(search.query) \/ NoTagMatch(search.query)))
            \/ (search.options.metadata # {}
                /\ (NoMeaningfulPair(search.query) \/ NoPairMatch(search.query))) )
       => IsEmptyPage /\ ~Issued("count") /\ ~Issued("fetch")
    /\ ( /\ search.pc = "done"
         /\ hasSearchCriteria(search.options)
         /\ search.query.tags # << >> /\ Len(search.options.tags) = 0
         /\ search.query.metadata = {} )
       => search.total = Cardinality({d \in documents : mainWhereClause(d, search.options)})

C25_Witness ==
    /\ search.pc = "done"
    /\ search.query.tags = <<"z">> /\ search.query.mimeType = <<"pdf">>
    /\ search.query.metadata = {} /\ search.user = "admin"
    /\ \E d \in documents : mainWhereClause(d, search.options)
    /\ \E t \in documentTags : t.tag = <<"z">>
    /\ IsEmptyPage /\ search.queries = << >>

\* the documents of the caller that the request matches when its owner scope is
\* left out
OwnMatches ==
    {d \in documents :
        /\ d.uploadedBy = search.user
        /\ finalWhereClause(d, [search EXCEPT !.options.uploadedBy = ""])}

\* C26: for a caller who is not an admin every document of the returned page is
\* owned by the caller and total counts the caller's documents only, whatever
\* owner scope the request carries
C26_ScopeConfinement ==
    (search.pc = "done" /\ UserRole(search.user) # "admin")
    => /\ \A i \in 1..Len(search.data) : search.data[i].uploadedBy = search.user
       /\ search.total <= Cardinality({d \in documents : d.uploadedBy = search.user})
       /\ Issued("count") => search.total = Cardinality(OwnMatches)

C26_Witness ==
    /\ search.pc = "done" /\ search.user = "u1" /\ search.query.uploadedBy = "u2"
    /\ search.query.mimeType = <<"pdf">>
    /\ \E d \in documents : d.uploadedBy = "u2" /\ d.mimeType = <<"pdf">>
    /\ Len(search.data) = 1 /\ search.data[1].uploadedBy = "u1" /\ search.total = 1

Max(a, b) == IF a > b THEN a ELSE b

\* the documents the finished search matched
Matched == {d \in documents : finalWhereClause(d, search)}

\* C27: totalPages is ceil(total / limit), total does not depend on the page,
\* page p holds min(limit, max(0, total - (p-1)*limit)) items in the requested
\* order, and the item in place i of page p is the one with exactly
\* (p-1)*limit + i - 1 matches before it, so that consecutive pages neither
\* repeat nor skip an item; 45 matches with limit 20 give 3 pages, 5 items on
\* the third
C27_Pagination ==
    (search.pc = "done")
    => LET p == search.page
           l == search.limit
       IN /\ p = search.query.page /\ l = search.query.limit
          /\ search.totalPages * l >= search.total
          /\ search.total > 0 => (search.totalPages - 1) * l < search.total
          /\ search.total = 0 => search.totalPages = 0
          /\ Issued("count") => search.total = Cardinality(Matched)
          /\ Len(search.data) = Min(l, Max(0, search.total - (p - 1) * l))
          /\ \A i \in 1..Len(search.data) :
                /\ search.data[i] \in Matched
                /\ Cardinality({e \in Matched : Precedes(e, search.data[i], search.options)})
                      = (p - 1) * l + i - 1
          /\ \A i, j \in 1..Len(search.data) :
                i < j => ~( IF search.options.sortOrder = "asc"
                            THEN KeyLess(search.data[j], search.data[i], search.options.sortBy)
                            ELSE KeyLess(search.data[i], search.data[j], search.options.sortBy) )
          /\ ceil(45, 20) = 3 /\ Min(20, Max(0, 45 - (3 - 1) * 20)) = 5

C27_Witness ==
    /\ search.pc = "done" /\ search.total = 3 /\ search.limit = 2 /\ search.page = 2
    /\ search.totalPages = 2 /\ Len(search.data) = 1
    /\ search.options.sortBy = "createdAt"
    /\ \E d, e \in Matched : d # e /\ d.createdAt = e.createdAt
====
